---- MODULE Spec2Model ----
(***************************************************************************)
(* A model of zpy/material.py: the snapshot registry _SAVED_MATERIALS and  *)
(* the save / restore / jitter operations on a material's Principled BSDF  *)
(* inputs, set_mat on an object hierarchy, and the two node-graph          *)
(* operations make_mat_from_color and make_aov_material_output_node.       *)
(*                                                                         *)
(* Parameter values are integers (one unit = one quantum of the float      *)
(* inputs); a gaussian sample is a nondeterministic choice from Noise.     *)
(***************************************************************************)
EXTENDS Integers, Sequences, FiniteSets, TLC

VARIABLES
    bsdf,       \* material name -> None | <<Roughness, Metallic, Specular>> of its 'Principled BSDF' node
    saved,      \* _SAVED_MATERIALS: a dict, material name -> triple
    run,        \* history: material name -> None | the triple it had before the first of an
                \* unbroken series of jitter(save_first_time=True) calls begun with no snapshot
    parent,     \* object -> its parent object, 0 for a root
    hasSlot,    \* object -> hasattr(obj, 'active_material')
    active,     \* object -> obj.active_material (a material name, or "None")
    mats,       \* bpy.data.materials: material name -> [use_nodes, tree, nodes, links]
    engine,     \* bpy.context.scene.render.engine
    wired,      \* history: the <<material, style>> pairs a completed AOV wiring covered
    call,       \* history: the call just made, with its arguments
    result      \* history: how that call ended: "ok" or the exception raised

vars == <<bsdf, saved, run, parent, hasSlot, active, mats, engine, wired, call, result>>

\* ---------------------------------------------------------------- bounds

\* Parameter values range over -MaxVal..MaxVal; a call whose result leaves it is not taken.
MaxVal == 2
\* Objects are 1..NumObjs.
NumObjs == 3

Val == -MaxVal..MaxVal
\* The values random.gauss(0, std) is sampled to: zero-mean, one quantum either way.
Noise == {-1, 0, 1}
\* The values an input of a material's node may start with.
InitVals == {0, 1}
None == <<>>

\* The materials of the parameter model: "steel" has a Principled BSDF node, "bare" has none.
PropMats == {"steel", "bare"}
\* A name bpy.data.materials does not hold.
Missing == "gone"
\* Python's None where a material is expected.
NoMat == "None"

NoCall == [op |-> "none"]

\* ------------------------------------------------- save / restore / jitter

\* bpy.data.materials.get(name): the name when the material exists, NoMat otherwise
\* (where check_none makes the caller raise ValueError).
verify(materials, mat) == IF mat \in DOMAIN materials THEN mat ELSE NoMat

get_mat_props(node) ==
    IF node = None THEN <<0, 0, 0>> ELSE <<node[1], node[2], node[3]>>

\* set_mat_props writing onto a node it did not find.
set_mat_props_create(node, prop_tuple) ==
    IF node = None THEN prop_tuple
    ELSE <<node[1] + prop_tuple[1], node[2] + prop_tuple[2], node[3] + prop_tuple[3]>>

\* The node after set_mat_props(mat, prop_tuple): each input is incremented by the tuple's entry.
set_mat_props(node, prop_tuple) ==
    IF node = None THEN node
    ELSE <<node[1] + prop_tuple[1], node[2] + prop_tuple[2], node[3] + prop_tuple[3]>>

\* _SAVED_MATERIALS[name] = props
dict_set(d, name, props) ==
    [k \in DOMAIN d \cup {name} |-> IF k = name THEN props ELSE d[k]]

\* The registry test by truth value of the entries, a zero triple counting as absent.
no_snapshot_falsy(d, name) == IF name \notin DOMAIN d THEN TRUE ELSE d[name] = <<0, 0, 0>>

\* _SAVED_MATERIALS.get(mat.name, None) is None
no_snapshot(d, name) == name \notin DOMAIN d

InRange(b) == \A m \in DOMAIN b : IF b[m] = None THEN TRUE ELSE \A i \in 1..3 : b[m][i] \in Val

Add3(a, b) == <<a[1] + b[1], a[2] + b[2], a[3] + b[3]>>

Triples(S) == {<<a, b, c>> : a \in S, b \in S, c \in S}

EmptyDict == [k \in {} |-> None]

OtherModelsIdle == UNCHANGED <<parent, hasSlot, active, mats, engine, wired>>

\* save_material_props(mat): the current triple is stored under the material's name.
save_material_props(mat) ==
    /\ saved' = dict_set(saved, mat, get_mat_props(bsdf[verify(bsdf, mat)]))
    /\ run' = [run EXCEPT ![mat] = None]
    /\ call' = [op |-> "save", mat |-> mat]
    /\ result' = "ok"
    /\ UNCHANGED bsdf
    /\ OtherModelsIdle

\* restore_material_props looking the snapshot up with a default instead of raising.
restore_material_props_default(mat) ==
    /\ call' = [op |-> "restore", mat |-> mat]
    /\ run' = [run EXCEPT ![mat] = None]
    /\ bsdf' = [bsdf EXCEPT ![mat] =
                  set_mat_props(bsdf[mat], IF mat \in DOMAIN saved THEN saved[mat] ELSE <<0, 0, 0>>)]
    /\ InRange(bsdf')
    /\ result' = "ok"
    /\ UNCHANGED saved
    /\ OtherModelsIdle

\* restore_material_props(mat): _SAVED_MATERIALS[mat.name] is looked up (KeyError when
\* absent) and handed to set_mat_props.
restore_material_props(mat) ==
    /\ call' = [op |-> "restore", mat |-> mat]
    /\ run' = [run EXCEPT ![mat] = None]
    /\ IF mat \in DOMAIN saved
       THEN /\ bsdf' = [bsdf EXCEPT ![mat] = set_mat_props(bsdf[verify(bsdf, mat)], saved[mat])]
            /\ InRange(bsdf')
            /\ result' = "ok"
       ELSE /\ result' = "KeyError"
            /\ UNCHANGED bsdf
    /\ UNCHANGED saved
    /\ OtherModelsIdle

\* restore_all_material_props(): set_mat_props for every item of the registry.
restore_all_material_props ==
    /\ bsdf' = [m \in DOMAIN bsdf |->
                  IF m \in DOMAIN saved THEN set_mat_props(bsdf[verify(bsdf, m)], saved[m])
                  ELSE bsdf[m]]
    /\ InRange(bsdf')
    /\ run' = [m \in DOMAIN run |-> IF m \in DOMAIN saved THEN None ELSE run[m]]
    /\ call' = [op |-> "restore_all"]
    /\ result' = "ok"
    /\ UNCHANGED saved
    /\ OtherModelsIdle

\* The registry after jitter's save_first_time step.
jitter_saved(m, save_first_time) ==
    IF save_first_time /\ no_snapshot(saved, m)
    THEN dict_set(saved, m, get_mat_props(bsdf[m]))
    ELSE saved

\* The node after jitter's save_first_time step: restored when a snapshot exists.
jitter_restored(m, save_first_time) ==
    IF save_first_time /\ ~no_snapshot(saved, m)
    THEN set_mat_props(bsdf[m], saved[m])
    ELSE bsdf[m]

\* The node after the whole of jitter: the triple read after the first step, plus the
\* noise, is handed to set_mat_props.
jitter_node(m, noise, save_first_time) ==
    LET node == jitter_restored(m, save_first_time)
        mat_props == get_mat_props(node)
        jittered_mat_props == Add3(mat_props, noise)
    IN  set_mat_props(node, jittered_mat_props)

\* jitter(mat, std, save_first_time), noise being the three gaussian samples drawn.
jitter(mat, noise, save_first_time) ==
    /\ call' = [op |-> "jitter", mat |-> mat, save_first_time |-> save_first_time,
                had |-> mat \in DOMAIN saved]
    /\ IF verify(bsdf, mat) = NoMat
       THEN /\ result' = "ValueError"
            /\ UNCHANGED <<bsdf, saved, run>>
       ELSE /\ saved' = jitter_saved(mat, save_first_time)
            /\ bsdf' = [bsdf EXCEPT ![mat] = jitter_node(mat, noise, save_first_time)]
            /\ InRange(bsdf')
            /\ run' = [run EXCEPT ![mat] =
                          IF ~save_first_time THEN None
                          ELSE IF no_snapshot(saved, mat) THEN bsdf[mat]
                          ELSE @]
            /\ result' = "ok"
    /\ OtherModelsIdle

InitProps ==
    /\ \E t \in Triples(InitVals) : bsdf = [m \in PropMats |-> IF m = "steel" THEN t ELSE None]
    /\ saved = EmptyDict
    /\ run = [m \in PropMats |-> None]
    /\ parent = <<>>
    /\ hasSlot = <<>>
    /\ active = <<>>
    /\ mats = EmptyDict
    /\ engine = "CYCLES"
    /\ wired = {}
    /\ call = NoCall
    /\ result = "ok"

NextProps ==
    \/ \E m \in PropMats : save_material_props(m)
    \/ \E m \in PropMats : restore_material_props(m)
    \/ restore_all_material_props
    \/ \E m \in PropMats, n \in Triples(Noise), f \in BOOLEAN : jitter(m, n, f)
    \* verify raises before any sample is drawn
    \/ \E f \in BOOLEAN : jitter(Missing, <<0, 0, 0>>, f)

SpecProps == InitProps /\ [][NextProps]_vars

\* ------------------------------------------------------------- set_mat

Objs == 1..NumObjs

\* The materials bpy.data.materials holds in the object model.
ObjMats == {"steel", "brass"}

\* obj.children
children(obj) == {c \in Objs : parent[c] = obj}

\* The objects one set_mat(obj, mat, recursive) call assigns the material to: none when
\* the object has no active_material attribute (the call returns there), else the object
\* and, when recursive, what set_mat(child, mat) assigns for each child.
RECURSIVE assigned(_, _)
assigned(obj, recursive) ==
    IF ~hasSlot[obj] THEN {}
    ELSE {obj} \cup (IF recursive THEN UNION {assigned(c, TRUE) : c \in children(obj)} ELSE {})

\* set_mat(obj, mat, recursive)
set_mat(obj, mat, recursive) ==
    /\ call' = [op |-> "set_mat", obj |-> obj, mat |-> mat, recursive |-> recursive]
    /\ IF verify(mats, mat) = NoMat
       THEN /\ result' = "ValueError"
            /\ UNCHANGED active
       ELSE /\ active' = [o \in Objs |-> IF o \in assigned(obj, recursive) THEN mat ELSE active[o]]
            /\ result' = "ok"
    /\ UNCHANGED <<bsdf, saved, run, parent, hasSlot, mats, engine, wired>>

\* A material bpy.data.materials.new(name) returns: no node tree yet.
new_material == [use_nodes |-> FALSE, has_tree |-> FALSE, nodes |-> {}, links |-> {}]

InitObj ==
    /\ parent \in {f \in [Objs -> 0..NumObjs] : \A o \in Objs : f[o] < o}
    /\ hasSlot \in [Objs -> BOOLEAN]
    /\ active = [o \in Objs |-> NoMat]
    /\ mats = [m \in ObjMats |-> new_material]
    /\ bsdf = EmptyDict
    /\ saved = EmptyDict
    /\ run = EmptyDict
    /\ engine = "CYCLES"
    /\ wired = {}
    /\ call = NoCall
    /\ result = "ok"

NextObj ==
    \E obj \in Objs, mat \in ObjMats \cup {Missing}, recursive \in BOOLEAN :
        set_mat(obj, mat, recursive)

SpecObj == InitObj /\ [][NextObj]_vars

\* ------------------------------------------------------- node graphs

\* A material's nodes are records; key is the name the tree files the node under (unique
\* in the tree), aov the AOV name of a ShaderNodeOutputAOV, whose "name" attribute is
\* that AOV name and not the key.
Node(id, type, key) ==
    [id |-> id, type |-> type, key |-> key, aov |-> "", layer |-> "", color |-> None]

NoNode == Node(0, "None", "")

\* node.name as Python reads it.
py_name(node) == IF node.type = "ShaderNodeOutputAOV" THEN node.aov ELSE node.key

fresh_id(nodes) ==
    CHOOSE i \in 1..(Cardinality(nodes) + 1) :
        /\ \A n \in nodes : n.id # i
        /\ \A j \in 1..(i - 1) : \E n \in nodes : n.id = j

\* The key the tree gives a node asking for base: base, or base with the first free suffix.
unique_key(nodes, base) ==
    LET cands == <<base, base \o ".001", base \o ".002", base \o ".003">>
        free(i) == \A n \in nodes : n.key # cands[i]
    IN  cands[CHOOSE i \in 1..4 : free(i) /\ \A j \in 1..(i - 1) : ~free(j)]

\* tree.nodes.get(name)
nodes_get(nodes, name) ==
    IF \E n \in nodes : n.key = name THEN CHOOSE n \in nodes : n.key = name ELSE NoNode

\* tree.nodes.new(type): the node, filed under the type's default name.
nodes_new(nodes, type, base) == Node(fresh_id(nodes), type, unique_key(nodes, base))

\* tree.links.new(output socket, input socket): an input socket holds one link.
links_new(links, from_node, from_socket, to_node, to_socket) ==
    {l \in links : ~(l.to_node = to_node.id /\ l.to_socket = to_socket)}
        \cup {[from_node |-> from_node.id, from_socket |-> from_socket,
               to_node |-> to_node.id, to_socket |-> to_socket]}

\* mat.use_nodes = True: the first time, the host builds the default tree.
enable_nodes(m) ==
    IF m.has_tree THEN [m EXCEPT !.use_nodes = TRUE]
    ELSE LET shader == Node(1, "ShaderNodeBsdfPrincipled", "Principled BSDF")
             out == Node(2, "ShaderNodeOutputMaterial", "Material Output")
         IN  [use_nodes |-> TRUE, has_tree |-> TRUE, nodes |-> {shader, out},
              links |-> links_new({}, shader, "BSDF", out, "Surface")]

\* str(color) for the colors of the model.
str_color(color) == CASE color = <<1, 0, 0>> -> "(1, 0, 0)"

\* bpy.data.materials after "get the material by name, create it when there is none".
get_or_new(materials, name) ==
    IF name \in DOMAIN materials THEN materials
    ELSE [k \in DOMAIN materials \cup {name} |-> IF k = name THEN new_material ELSE materials[k]]

\* make_mat_from_color(color, name)
make_mat_from_color(color, name) ==
    LET nm == IF name = NoMat THEN str_color(color) ELSE name
        held == get_or_new(mats, nm)
        m == enable_nodes(held[nm])
        bsdf_node == nodes_get(m.nodes, "Principled BSDF")
        out_node == nodes_get(m.nodes, "Material Output")
        kept == m.nodes \ {bsdf_node}
        klinks == {l \in m.links : l.from_node # bsdf_node.id /\ l.to_node # bsdf_node.id}
        diffuse == [nodes_new(kept, "ShaderNodeBsdfDiffuse", "Diffuse BSDF")
                        EXCEPT !.color = color \o <<1>>]
    IN  /\ call' = [op |-> "color", name |-> nm]
        /\ IF bsdf_node = NoNode
           THEN \* nodes.remove(None)
                /\ result' = "TypeError"
                /\ mats' = [held EXCEPT ![nm] = m]
           ELSE /\ result' = "ok"
                /\ mats' = [held EXCEPT ![nm] =
                              [m EXCEPT !.nodes = kept \cup {diffuse},
                                        !.links = links_new(klinks, diffuse, "BSDF", out_node, "Surface")]]
        /\ UNCHANGED <<bsdf, saved, run, parent, hasSlot, active, engine, wired>>

\* The render engine after the engine check, whose body compares and assigns nothing.
ensure_cycles_assign(e) == IF e # "CYCLES" THEN "CYCLES" ELSE e

ensure_cycles(e) == IF e # "CYCLES" THEN e ELSE e

valid_styles == {"instance", "category"}

\* The AOV output node looked up with tree.nodes.get.
find_aov_node_by_get(nodes, name) == nodes_get(nodes, name)

\* The loop over the tree's nodes for one whose name attribute is the style; ids follow
\* the order of creation, and the last match is kept.
find_aov_node(nodes, name) ==
    LET hits == {n \in nodes : py_name(n) = name}
    IN  IF hits = {} THEN NoNode ELSE CHOOSE n \in hits : \A o \in hits : o.id <= n.id

\* One turn of the loop over all_mats: the material after the wiring for style.
wire(m0, style) ==
    LET m == IF m0.use_nodes THEN m0 ELSE enable_nodes(m0)
        vname == style \o " Vertex Color"
        found == nodes_get(m.nodes, vname)
        made == nodes_new(m.nodes, "ShaderNodeVertexColor", "Vertex Color")
        vertexcolor_node ==
            IF found = NoNode
            THEN [made EXCEPT !.layer = style, !.key = unique_key(m.nodes, vname)]
            ELSE [found EXCEPT !.layer = style]
        nodes1 == (m.nodes \ {found}) \cup {vertexcolor_node}
        afound == find_aov_node(nodes1, style)
        amade == nodes_new(nodes1, "ShaderNodeOutputAOV", "AOV Output")
        aovoutput_node == [IF afound = NoNode THEN amade ELSE afound EXCEPT !.aov = style]
        nodes2 == (nodes1 \ {afound}) \cup {aovoutput_node}
    IN  [m EXCEPT !.nodes = nodes2,
                  !.links = links_new(m.links, vertexcolor_node, "Color", aovoutput_node, "Color")]

\* The loop over all_mats: the materials, the pairs wired, and the exception that ended it.
RECURSIVE wire_all(_, _, _, _)
wire_all(materials, done, all_mats, style) ==
    IF all_mats = <<>> THEN [mats |-> materials, done |-> done, exc |-> "ok"]
    ELSE IF Head(all_mats) = NoMat
         THEN [mats |-> materials, done |-> done, exc |-> "AttributeError"]
         ELSE wire_all([materials EXCEPT ![Head(all_mats)] = wire(@, style)],
                       done \cup {<<Head(all_mats), style>>}, Tail(all_mats), style)

\* The objects of the node-graph model, by their material slots; the active material is
\* the first slot's.
GraphObjs == {<<>>, <<"steel">>, <<"steel", "steel">>, <<"steel", NoMat>>}
NoObj == <<NoMat>>

active_material(obj) == IF obj = <<>> THEN NoMat ELSE obj[1]

\* make_aov_material_output_node(mat, obj, style)
make_aov_material_output_node(mat, obj, style) ==
    LET all_mats == IF mat # NoMat THEN <<mat>>
                    ELSE IF Len(obj) > 1 THEN obj
                    ELSE <<active_material(obj)>>
    IN  /\ engine' = ensure_cycles(engine)
        /\ IF style \notin valid_styles
           THEN /\ result' = "AssertionError"
                /\ call' = [op |-> "aov", mat |-> mat, obj |-> obj, style |-> style, again |-> FALSE]
                /\ UNCHANGED <<mats, wired>>
           ELSE IF mat = NoMat /\ obj = NoObj
           THEN /\ result' = "ValueError"
                /\ call' = [op |-> "aov", mat |-> mat, obj |-> obj, style |-> style, again |-> FALSE]
                /\ UNCHANGED <<mats, wired>>
           ELSE IF mat = NoMat /\ active_material(obj) = NoMat
           THEN /\ result' = "ok"
                /\ call' = [op |-> "aov", mat |-> mat, obj |-> obj, style |-> style, again |-> FALSE]
                /\ UNCHANGED <<mats, wired>>
           ELSE \E out \in {wire_all(mats, {}, all_mats, style)} :
                /\ result' = out.exc
                /\ call' = [op |-> "aov", mat |-> mat, obj |-> obj, style |-> style,
                            again |-> out.done \cap wired # {}]
                /\ mats' = out.mats
                /\ wired' = wired \cup out.done
        /\ UNCHANGED <<bsdf, saved, run, parent, hasSlot, active>>

\* The (mat, obj) pairs the wiring is called with: a material alone, an object alone,
\* neither, and both.
AovArgs ==
    {<<m, NoObj>> : m \in DOMAIN mats \cap {"steel", "red"}}
        \cup {<<NoMat, o>> : o \in GraphObjs \cup {NoObj}}
        \cup {<<"steel", <<"steel">>>>}

InitGraph ==
    /\ mats = [m \in {"steel"} |-> new_material]
    /\ engine \in {"CYCLES", "BLENDER_EEVEE"}
    /\ wired = {}
    /\ bsdf = EmptyDict
    /\ saved = EmptyDict
    /\ run = EmptyDict
    /\ parent = <<>>
    /\ hasSlot = <<>>
    /\ active = <<>>
    /\ call = NoCall
    /\ result = "ok"

NextGraph ==
    \/ \E name \in {"steel", "red", NoMat} : make_mat_from_color(<<1, 0, 0>>, name)
    \/ \E a \in AovArgs, style \in valid_styles \cup {"bogus"} :
            make_aov_material_output_node(a[1], a[2], style)

SpecGraph == InitGraph /\ [][NextGraph]_vars

\* ------------------------------------------------ claims on SpecProps

HasBsdf(m) == bsdf[m] # None

\* C1: for a material with a Principled BSDF node, restore_material_props right after
\* save_material_props leaves the three parameters as they were before the save.
C1_SaveRestoreRoundTrip ==
    [][\A m \in PropMats :
          (HasBsdf(m) /\ call.op = "save" /\ call.mat = m
                      /\ call'.op = "restore" /\ call'.mat = m)
          => (result' = "ok" /\ bsdf'[m] = bsdf[m])]_vars

\* C2: in an unbroken series of jitter(M, std, save_first_time=True) calls begun with no
\* snapshot, after every call each parameter is the baseline (the value before the first
\* call) plus the noise drawn in that call.
C2_JitterFromBaseline ==
    [][\A m \in PropMats, n \in Triples(Noise) :
          (HasBsdf(m) /\ jitter(m, n, TRUE) /\ run'[m] # None)
          => bsdf'[m] = Add3(run'[m], n)]_vars

\* C3: jitter(M, std, save_first_time=False) on a material with a Principled BSDF node and
\* no snapshot does not raise, and each parameter becomes its old value plus its noise.
C3_JitterNoSave ==
    [][\A m \in PropMats, n \in Triples(Noise) :
          (HasBsdf(m) /\ no_snapshot(saved, m) /\ jitter(m, n, FALSE))
          => (result' = "ok" /\ bsdf'[m] = Add3(bsdf[m], n))]_vars

\* C4: the first jitter(M, save_first_time=True) creates M's snapshot from M's current
\* parameters, and once M has a snapshot no jitter, restore_material_props or
\* restore_all_material_props call changes or removes it.
C4_SnapshotNeverOverwritten ==
    [][\A m \in PropMats :
          /\ (m \in DOMAIN saved /\ call'.op \in {"jitter", "restore", "restore_all"})
             => (m \in DOMAIN saved' /\ saved'[m] = saved[m])
          /\ (m \notin DOMAIN saved /\ call'.op = "jitter" /\ call'.mat = m
                 /\ call'.save_first_time)
             => (m \in DOMAIN saved' /\ saved'[m] = get_mat_props(bsdf[m]))]_vars

\* A jitter(save_first_time=True) call was made on a material whose snapshot, the
\* baseline (0, 0, 0), already existed, the material's parameters having moved on.
C4_Witness ==
    /\ call.op = "jitter" /\ call.save_first_time /\ call.had /\ result = "ok"
    /\ HasBsdf(call.mat)
    /\ saved[call.mat] = <<0, 0, 0>>
    /\ bsdf[call.mat] # <<0, 0, 0>>

\* C8: restore_material_props(M) with no snapshot for M raises KeyError and leaves the
\* parameters of every material and the registry as they were.
C8_RestoreWithoutSnapshot ==
    [][\A m \in PropMats :
          (m \notin DOMAIN saved /\ call'.op = "restore" /\ call'.mat = m)
          => (result' = "KeyError" /\ bsdf' = bsdf /\ saved' = saved)]_vars

\* A restore of a material with parameters and no snapshot has just failed.
C8_Witness ==
    /\ call.op = "restore" /\ result = "KeyError"
    /\ HasBsdf(call.mat) /\ call.mat \notin DOMAIN saved

\* C9: jitter on a material without a Principled BSDF node never raises and leaves the
\* node graph as it was, with or without save_first_time and with or without a snapshot;
\* a snapshot it creates is the zero triple.
C9_JitterWithoutBsdf ==
    [][\A m \in PropMats :
          (~HasBsdf(m) /\ call'.op = "jitter" /\ call'.mat = m)
          => /\ result' = "ok"
             /\ bsdf' = bsdf
             /\ (call'.save_first_time /\ m \notin DOMAIN saved) => saved'[m] = <<0, 0, 0>>]_vars

\* A jitter of a material without the node went through the restore branch.
C9_Witness ==
    /\ call.op = "jitter" /\ call.mat \in PropMats /\ ~HasBsdf(call.mat)
    /\ call.save_first_time /\ call.had /\ result = "ok"

\* ------------------------------------------------ claims on SpecObj

RECURSIVE ancestors(_)
ancestors(o) == IF parent[o] = 0 THEN {} ELSE {parent[o]} \cup ancestors(parent[o])

descendants(obj) == {d \in Objs : obj \in ancestors(d)}

\* C5: after set_mat(obj, M, recursive=True) the call has not raised, and obj and every
\* descendant of obj that has a material slot has M as its active material.
C5_SetMatReachesDescendants ==
    (call.op = "set_mat" /\ call.recursive /\ call.mat \in DOMAIN mats)
    => /\ result = "ok"
       /\ \A o \in {call.obj} \cup descendants(call.obj) : hasSlot[o] => active[o] = call.mat

\* ------------------------------------------------ claims on SpecGraph

\* C6: make_mat_from_color(color, name) succeeds every time it is called, also for a
\* name it was called with before, and bpy.data.materials holds the material of that name.
C6_ColorIdempotentByName ==
    call.op = "color" => (result = "ok" /\ call.name \in DOMAIN mats)

VertexNodes(m, style) ==
    {n \in mats[m].nodes : n.key = style \o " Vertex Color"}

AovNodes(m, style) ==
    {n \in mats[m].nodes : n.type = "ShaderNodeOutputAOV" /\ n.aov = style}

\* C10: for every material and style some AOV wiring has covered, the material's tree
\* holds exactly one node named '<style> Vertex Color', a vertex-color node, exactly one
\* AOV output node named '<style>', and the link from the former's Color output to the
\* latter's Color input, whatever calls followed.
C10_AovNodesReused ==
    \A p \in wired :
        /\ Cardinality(VertexNodes(p[1], p[2])) = 1
        /\ Cardinality(AovNodes(p[1], p[2])) = 1
        /\ \A v \in VertexNodes(p[1], p[2]) : \A a \in AovNodes(p[1], p[2]) :
              /\ v.type = "ShaderNodeVertexColor"
              /\ [from_node |-> v.id, from_socket |-> "Color",
                  to_node |-> a.id, to_socket |-> "Color"] \in mats[p[1]].links

\* A wiring call has just covered a pair of material and style covered before, on a
\* material that holds the pairs of both styles.
C10_Witness ==
    /\ call.op = "aov" /\ call.again /\ result = "ok"
    /\ <<"steel", "instance">> \in wired
    /\ <<"steel", "category">> \in wired
    /\ Cardinality(mats["steel"].nodes) >= 6

====
